---- MODULE Spec2Model ----
(***************************************************************************)
(* Battery cell monitoring dashboard (src/app2.py) and its companion       *)
(* command-line script (src/w1.py).                                        *)
(*                                                                         *)
(* Numbers are fixed point, so that round(x, n) is a real conversion:      *)
(*   voltage      in 1e-4 V   (a stored voltage, 3 decimals, is k * 10)    *)
(*   current      in 1e-3 A   (a stored current, 2 decimals, is k * 10)    *)
(*   temperature  in 1e-2 C   (a stored temperature, 1 decimal, is k * 10) *)
(*   capacity     in 1e-2 Wh  (2 decimals)                                 *)
(* round() is Python 3's round-half-to-even on the decimal value; the      *)
(* binary representation error of floats is not modelled.                  *)
(*                                                                         *)
(* A string that the code splits at '_' is the sequence of its '_'-free    *)
(* pieces: "nmc" is <<"nmc">>, "li_ion" is <<"li", "ion">>.                *)
(***************************************************************************)
EXTENDS Integers, Sequences, FiniteSets, TLC

VARIABLES
    cells_data,         \* st.session_state.cells_data: ordered <<[key, data]>>
    historical_data,    \* st.session_state.historical_data
    monitoring_active,  \* st.session_state.monitoring_active
    auto_refresh,       \* st.session_state.auto_refresh
    num_cells,          \* the "Number of cells to monitor" widget
    voltage_noise,      \* the "Voltage noise level" slider, 1e-4 V
    temp_noise,         \* the "Temperature noise level" slider, 1e-2 C
    current_noise,      \* the "Current noise level" slider, 1e-3 A
    now,                \* the wall clock, in refresh intervals slept
    pc,                 \* which function was called last (function-level runs)
    arg_type,           \* the chemistry identifier passed or entered
    arg_data,           \* the reading passed
    ret_specs,          \* what get_cell_specs returned
    ret_status,         \* what check_cell_status returned: status
    ret_alerts,         \* what check_cell_status returned: alerts
    ret_data            \* what simulate_real_time_data / w1.py produced

session == <<cells_data, historical_data, monitoring_active, auto_refresh>>
widgets == <<num_cells, voltage_noise, temp_noise, current_noise>>
call    == <<pc, arg_type, arg_data, ret_specs, ret_status, ret_alerts, ret_data>>
vars    == <<session, widgets, now, call>>

----------------------------------------------------------------------------
(* Arithmetic *)

abs(x) == IF x < 0 THEN -x ELSE x

max(a, b) == IF a >= b THEN a ELSE b

min(a, b) == IF a <= b THEN a ELSE b

\* The multiple of q nearest to n, a tie going to the even multiple.
RoundHalfEven(n, q) ==
    LET lo == (n \div q) * q
        r  == n - lo
    IN  IF 2 * r < q THEN lo
        ELSE IF 2 * r > q THEN lo + q
        ELSE IF (n \div q) % 2 = 0 THEN lo ELSE lo + q

round_voltage(x) == RoundHalfEven(x, 10)

round_temp(x) == RoundHalfEven(x, 10)

round_current(x) == RoundHalfEven(x, 10)

\* round(v * c, 2) for v >= 0 in 1e-4 V and c in 1e-3 A, in 1e-2 Wh: the
\* multiple of 1e5 nearest to v * c (in 1e-7), a tie going to the even one.
\* The product is taken in parts, v = vh * 100 + vl, so that no
\* intermediate value leaves TLC's 32-bit integers.
round_product(v, c) ==
    LET a    == abs(c)
        vh   == v \div 100
        vl   == v % 100
        ah   == a \div 1000
        al   == a % 1000
        rest == vh * 100 * al + vl * a
        q    == vh * ah + rest \div 100000
        r    == rest % 100000
        n    == IF 2 * r < 100000 THEN q
                ELSE IF 2 * r > 100000 THEN q + 1
                ELSE IF q % 2 = 0 THEN q ELSE q + 1
    IN  IF c < 0 THEN -n ELSE n

----------------------------------------------------------------------------
(* Strings split at '_' *)

\* f"cell_{idx}_{cell_type}"
cell_key(idx, cell_type) == <<"cell", ToString(idx)>> \o cell_type

\* cell_key.split('_')[2]
key_type(key) == <<key[3]>>

----------------------------------------------------------------------------
(* get_cell_specs *)

cell_types == <<"lfp", "nmc", "lto", "lifepo4">>

KnownTypes == {<<cell_types[i]>> : i \in 1..Len(cell_types)}

specs_lfp ==
    [nominal_voltage |-> 32000, min_voltage |-> 28000, max_voltage |-> 36000,
     max_current |-> 100000, color |-> "#2E8B57"]

specs_nmc ==
    [nominal_voltage |-> 36000, min_voltage |-> 32000, max_voltage |-> 40000,
     max_current |-> 120000, color |-> "#4169E1"]

\* The lto row with its min_voltage typed as 2.5 instead of 1.5.
specs_lto_slip ==
    [nominal_voltage |-> 24000, min_voltage |-> 25000, max_voltage |-> 28000,
     max_current |-> 200000, color |-> "#FF6347"]

specs_lto ==
    [nominal_voltage |-> 24000, min_voltage |-> 15000, max_voltage |-> 28000,
     max_current |-> 200000, color |-> "#FF6347"]

specs_lifepo4 ==
    [nominal_voltage |-> 33000, min_voltage |-> 25000, max_voltage |-> 36500,
     max_current |-> 150000, color |-> "#9370DB"]

\* The lookup as specs[cell_type]: an unknown identifier is a KeyError.
get_cell_specs_strict(cell_type) ==
    IF cell_type = <<"nmc">> THEN specs_nmc
    ELSE IF cell_type = <<"lto">> THEN specs_lto
    ELSE IF cell_type = <<"lifepo4">> THEN specs_lifepo4
    ELSE IF cell_type = <<"lfp">> THEN specs_lfp
    ELSE [nominal_voltage |-> 0, min_voltage |-> 0, max_voltage |-> 0,
          max_current |-> 0, color |-> "KeyError"]

\* specs.get(cell_type, specs["lfp"])
get_cell_specs(cell_type) ==
    IF cell_type = <<"lfp">> THEN specs_lfp
    ELSE IF cell_type = <<"nmc">> THEN specs_nmc
    ELSE IF cell_type = <<"lto">> THEN specs_lto
    ELSE IF cell_type = <<"lifepo4">> THEN specs_lifepo4
    ELSE specs_lfp

----------------------------------------------------------------------------
(* check_cell_status *)

\* The result so far: [status, alerts].
status_start == [status |-> "Good", alerts |-> <<>>]

raise_to_warning(status) == IF status = "Good" THEN "Warning" ELSE status

\* The voltage comparisons written <= and >=.
voltage_checks_inclusive(r, voltage, specs) ==
    IF voltage <= specs.min_voltage
    THEN [status |-> "Critical", alerts |-> Append(r.alerts, "voltage_low")]
    ELSE IF voltage >= specs.max_voltage
    THEN [status |-> "Critical", alerts |-> Append(r.alerts, "voltage_high")]
    ELSE r

voltage_checks(r, voltage, specs) ==
    IF voltage < specs.min_voltage
    THEN [status |-> "Critical", alerts |-> Append(r.alerts, "voltage_low")]
    ELSE IF voltage > specs.max_voltage
    THEN [status |-> "Critical", alerts |-> Append(r.alerts, "voltage_high")]
    ELSE r

\* A current alert that overwrites the status instead of raising it.
current_checks_overwrite(r, current, specs) ==
    IF abs(current) > specs.max_current
    THEN [status |-> "Warning", alerts |-> Append(r.alerts, "current_high")]
    ELSE r

current_checks(r, current, specs) ==
    IF abs(current) > specs.max_current
    THEN [status |-> raise_to_warning(r.status),
          alerts |-> Append(r.alerts, "current_high")]
    ELSE r

\* The temperature chain with its first elif written as a second if.
temperature_checks_twice(r, temp) ==
    LET r1 == IF temp > 4500
              THEN [status |-> "Critical", alerts |-> Append(r.alerts, "temp_high")]
              ELSE r
    IN  IF temp > 4000
        THEN [status |-> raise_to_warning(r1.status),
              alerts |-> Append(r1.alerts, "temp_elevated")]
        ELSE IF temp < 0
        THEN [status |-> raise_to_warning(r1.status),
              alerts |-> Append(r1.alerts, "temp_low")]
        ELSE r1

temperature_checks(r, temp) ==
    IF temp > 4500
    THEN [status |-> "Critical", alerts |-> Append(r.alerts, "temp_high")]
    ELSE IF temp > 4000
    THEN [status |-> raise_to_warning(r.status),
          alerts |-> Append(r.alerts, "temp_elevated")]
    ELSE IF temp < 0
    THEN [status |-> raise_to_warning(r.status),
          alerts |-> Append(r.alerts, "temp_low")]
    ELSE r

check_cell_status(cell_data, cell_type) ==
    LET specs == get_cell_specs(cell_type)
        r1 == voltage_checks(status_start, cell_data.voltage, specs)
        r2 == current_checks(r1, cell_data.current, specs)
    IN  temperature_checks(r2, cell_data.temp)

----------------------------------------------------------------------------
(* simulate_real_time_data *)

\* The ranges of the three random.uniform draws.
VoltageVariationMax == 500

TempVariationMax == 100

CurrentVariationMax == 2000

\* The voltage clamp without its lower limit.
clamp_voltage_upper_only(v, specs) == min(specs.max_voltage, v)

clamp_voltage(v, specs) == max(specs.min_voltage, min(specs.max_voltage, v))

\* The temperature clamp without its lower limit.
clamp_temp_upper_only(t) == min(5000, t)

clamp_temp(t) == max(0, min(5000, t))

\* voltage_variation, temp_variation and current_variation are the draws.
simulate_real_time_data(key, base_data, voltage_variation, temp_variation, current_variation, timestamp) ==
    LET cell_type   == key_type(key)
        specs       == get_cell_specs(cell_type)
        new_voltage == clamp_voltage(base_data.voltage + voltage_variation, specs)
        new_temp    == clamp_temp(base_data.temp + temp_variation)
        new_current == base_data.current + current_variation
    IN  [base_data EXCEPT
            !.voltage   = round_voltage(new_voltage),
            !.temp      = round_temp(new_temp),
            !.current   = round_current(new_current),
            !.capacity  = round_product(new_voltage, abs(new_current)),
            !.timestamp = timestamp]

----------------------------------------------------------------------------
(* Cell setup and manual update (the dashboard), cell setup and current   *)
(* entry (the script)                                                      *)

\* The record of lines 183-191; temp is round(random.uniform(25, 35), 1).
new_cell(cell_type, temp, timestamp) ==
    LET specs == get_cell_specs(cell_type)
    IN  [voltage     |-> specs.nominal_voltage,
         current     |-> 0,
         temp        |-> temp,
         capacity    |-> 0,
         min_voltage |-> specs.min_voltage,
         max_voltage |-> specs.max_voltage,
         timestamp   |-> timestamp]

update_capacity(new_voltage, new_current) ==
    round_product(new_voltage, abs(new_current))

\* cells_data[selected_cell].update({...})
update_cell_data(data, new_voltage, new_current, new_temp, timestamp) ==
    [data EXCEPT
        !.voltage   = new_voltage,
        !.current   = new_current,
        !.temp      = new_temp,
        !.capacity  = update_capacity(new_voltage, new_current),
        !.timestamp = timestamp]

\* w1.py, the first loop: temp is round(random.uniform(25, 40), 1).
w1_setup(cell_type, temp) ==
    LET voltage == IF cell_type = <<"lfp">> THEN 32000 ELSE 36000
        current == 0
    IN  [voltage     |-> voltage,
         current     |-> current,
         temp        |-> temp,
         capacity    |-> round_product(voltage, current),
         min_voltage |-> IF cell_type = <<"lfp">> THEN 28000 ELSE 32000,
         max_voltage |-> IF cell_type = <<"lfp">> THEN 36000 ELSE 40000]

\* w1.py, the second loop.
w1_enter_current(data, current) ==
    [data EXCEPT
        !.current  = current,
        !.capacity = round_product(data.voltage, current)]

----------------------------------------------------------------------------
(* Inputs *)

\* Chemistry identifiers: the four of the table, and others.
Identifiers ==
    KnownTypes \cup {<<"xyz">>, <<"">>, <<"li", "ion">>, <<"nmc", "x">>}

\* Voltages a reading can hold: the manual input accepts [0, 5] V.
VoltageInputs ==
    {0, 14990, 15000, 24000, 25000, 28000, 28010, 32000, 33000, 36000, 36010,
     36500, 40000, 40010, 50000}

\* Currents a reading can hold: the manual input accepts any number.
CurrentInputs ==
    {-200010, -200000, -100010, -100000, -10000, 0, 50000, 120000, 120010,
     150000, 150010}

\* Temperatures a reading can hold: the manual input accepts [-20, 80] C.
TempInputs == {-2000, -10, 0, 3000, 4000, 4010, 4500, 4510, 5000, 8000}

\* round(random.uniform(25, 35), 1) of the dashboard's cell setup.
SeedTemps == {2500, 3000, 3500}

\* round(random.uniform(25, 40), 1) of the script's cell setup.
W1SeedTemps == {2500, 3000, 3500, 3820, 4000}

\* random.uniform(-0.05, 0.05), (-1.0, 1.0), (-2.0, 2.0): draws finer than
\* the stored decimals, and the ends of the ranges.
VoltageVariations == {-VoltageVariationMax, -4, 0, 4, VoltageVariationMax}

TempVariations == {-TempVariationMax, 4, TempVariationMax}

CurrentVariations == {-CurrentVariationMax, 0, 1004, CurrentVariationMax}

\* Values of variables nothing has been stored in yet.
NoData == [voltage |-> 0, current |-> 0, temp |-> 0, capacity |-> 0,
           min_voltage |-> 0, max_voltage |-> 0, timestamp |-> 0]

NoSpecs == [nominal_voltage |-> 0, min_voltage |-> 0, max_voltage |-> 0,
            max_current |-> 0, color |-> ""]

----------------------------------------------------------------------------
(* The session of the dashboard as first constructed (lines 56-63) and the *)
(* widgets' defaults                                                        *)

SessionInit ==
    /\ cells_data = <<>>
    /\ historical_data = <<>>
    /\ monitoring_active = FALSE
    /\ auto_refresh = FALSE

WidgetsInit ==
    /\ voltage_noise = VoltageVariationMax
    /\ temp_noise = TempVariationMax
    /\ current_noise = CurrentVariationMax

CallInit ==
    /\ pc = "start"
    /\ ret_specs = NoSpecs
    /\ ret_status = "none"
    /\ ret_alerts = <<>>
    /\ ret_data = NoData

----------------------------------------------------------------------------
(* Function-level runs: each function applied once to drawn arguments *)

CallsInit ==
    /\ SessionInit
    /\ WidgetsInit
    /\ num_cells = 1
    /\ now = 0
    /\ CallInit
    /\ arg_type \in Identifiers
    /\ \E v \in VoltageInputs, c \in CurrentInputs, t \in TempInputs :
          arg_data = [NoData EXCEPT !.voltage = v, !.current = c, !.temp = t]

CallGetCellSpecs ==
    /\ pc = "start"
    /\ pc' = "get_cell_specs"
    /\ ret_specs' = get_cell_specs(arg_type)
    /\ UNCHANGED <<session, widgets, now, arg_type, arg_data, ret_status, ret_alerts, ret_data>>

CallCheckCellStatus ==
    /\ pc = "start"
    /\ pc' = "check_cell_status"
    /\ LET r == check_cell_status(arg_data, arg_type)
       IN  /\ ret_status' = r.status
           /\ ret_alerts' = r.alerts
    /\ UNCHANGED <<session, widgets, now, arg_type, arg_data, ret_specs, ret_data>>

\* Lines 296-298: the status of a cell, its chemistry parsed from its key.
CallCellStatus ==
    /\ pc = "start"
    /\ pc' = "cell_status"
    /\ LET key == cell_key(1, arg_type)
           r   == check_cell_status(arg_data, key_type(key))
       IN  /\ ret_status' = r.status
           /\ ret_alerts' = r.alerts
    /\ UNCHANGED <<session, widgets, now, arg_type, arg_data, ret_specs, ret_data>>

CallSimulate ==
    /\ pc = "start"
    /\ pc' = "simulate_real_time_data"
    /\ \E dv \in VoltageVariations, dt \in TempVariations, dc \in CurrentVariations :
          ret_data' = simulate_real_time_data(cell_key(1, arg_type), arg_data, dv, dt, dc, now)
    /\ UNCHANGED <<session, widgets, now, arg_type, arg_data, ret_specs, ret_status, ret_alerts>>

\* Lines 296-298 in the run of a tick (lines 248-249): the status of the
\* simulated reading, its chemistry parsed from the key the step used.
CallStatusOfSimulated ==
    /\ pc = "simulate_real_time_data"
    /\ pc' = "status_of_simulated"
    /\ LET key == cell_key(1, arg_type)
           r   == check_cell_status(ret_data, key_type(key))
       IN  /\ ret_status' = r.status
           /\ ret_alerts' = r.alerts
    /\ UNCHANGED <<session, widgets, now, arg_type, arg_data, ret_specs, ret_data>>

\* Lines 179-191 for one cell: the type is one of the selectbox's options.
CallNewCell ==
    /\ pc = "start"
    /\ arg_type \in KnownTypes
    /\ pc' = "new_cell"
    /\ \E temp \in SeedTemps : ret_data' = new_cell(arg_type, temp, now)
    /\ UNCHANGED <<session, widgets, now, arg_type, arg_data, ret_specs, ret_status, ret_alerts>>

\* The script's first loop for one cell: whatever type was entered.
CallW1Setup ==
    /\ pc = "start"
    /\ pc' = "w1_setup"
    /\ \E temp \in W1SeedTemps :
          LET d == w1_setup(arg_type, temp)
          IN  ret_data' = [NoData EXCEPT !.voltage = d.voltage, !.current = d.current,
                                         !.temp = d.temp, !.capacity = d.capacity,
                                         !.min_voltage = d.min_voltage,
                                         !.max_voltage = d.max_voltage]
    /\ UNCHANGED <<session, widgets, now, arg_type, arg_data, ret_specs, ret_status, ret_alerts>>

\* The script's second loop for that cell: the current entered.
CallW1EnterCurrent ==
    /\ pc = "w1_setup"
    /\ pc' = "w1"
    /\ LET d == w1_enter_current(ret_data, arg_data.current)
       IN  ret_data' = [ret_data EXCEPT !.current = d.current, !.capacity = d.capacity]
    /\ UNCHANGED <<session, widgets, now, arg_type, arg_data, ret_specs, ret_status, ret_alerts>>

CallsNext ==
    \/ CallGetCellSpecs
    \/ CallCheckCellStatus
    \/ CallCellStatus
    \/ CallSimulate
    \/ CallStatusOfSimulated
    \/ CallNewCell
    \/ CallW1Setup
    \/ CallW1EnterCurrent

SpecCalls == CallsInit /\ [][CallsNext]_vars

----------------------------------------------------------------------------
(* The dashboard: one action per run of the script, from its first line to *)
(* its last or to the st.rerun() that ends it                               *)

\* Refresh intervals the clock may run to.
MaxTime == 2

\* The same, for runs that fill the history.
MaxHistoryTime == 101

\* Numbers of cells chosen in the widget of line 170, which accepts 1 to 16.
CellCounts == {1, 2}

\* Manual inputs (voltage, current, temperature): lines 215-232.
ManualInputs == {<<50000, -150010, -2000>>}

\* Draws (voltage, temperature, current) of one cell in one tick.
Draws == {<<4, 4, 1004>>, <<-500, -100, -2000>>}

QuietDraws == {<<0, 0, 0>>}

\* Positions (voltage, temperature, current) of the sliders of lines 480-482.
SliderPositions ==
    {<<VoltageVariationMax, TempVariationMax, CurrentVariationMax>>, <<0, 0, 0>>}

\* Seed temperatures of the dashboard's runs, and the selectboxes' choice
\* (their default, index 0).
RunSeedTemps == {3000}

RunTypes == {<<"lfp">>}

\* Lines 176-191: the outcomes of the cell setup for n cells, types drawn
\* from T and seed temperatures from RunSeedTemps.
setup_cells(cells, n, T, timestamp) ==
    IF Len(cells) # n
    THEN {[i \in 1..n |->
              [key  |-> cell_key(i, types[i]),
               data |-> new_cell(types[i], temps[i], timestamp)]] :
          types \in [1..n -> T], temps \in [1..n -> RunSeedTemps]}
    ELSE {cells}

\* Lines 235-241.
update_selected(cells, i, input, timestamp) ==
    [cells EXCEPT ![i].data =
        update_cell_data(cells[i].data, input[1], input[2], input[3], timestamp)]

\* The condition of line 245 with "or" for "and".
tick_due_either(active, refresh) == active \/ refresh

\* Line 245.
tick_due(active, refresh) == active /\ refresh

\* Lines 248-249; draws[i] is cell i's (voltage, temperature, current) draw.
simulate_all(cells, draws, timestamp) ==
    [i \in 1..Len(cells) |->
        [key  |-> cells[i].key,
         data |-> simulate_real_time_data(cells[i].key, cells[i].data,
                      draws[i][1], draws[i][2], draws[i][3], timestamp)]]

\* Lines 254-261.
historical_entry(current_time, cell) ==
    [timestamp |-> current_time,
     cell_id   |-> cell.key,
     voltage   |-> cell.data.voltage,
     current   |-> cell.data.current,
     temp      |-> cell.data.temp,
     capacity  |-> cell.data.capacity]

\* Lines 265-266: historical_data[-800:] when longer than 800.
keep_last(history) ==
    IF Len(history) > 800
    THEN SubSeq(history, Len(history) - 800 + 1, Len(history))
    ELSE history

\* Lines 252-266.
store_history(history, cells, current_time) ==
    keep_last(history \o [i \in 1..Len(cells) |-> historical_entry(current_time, cells[i])])

\* Lines 245-268 and 513-522: the run from line 245 on, the sidebar having
\* left cells, active and refresh; button is the tab-4 button pressed, if
\* any. A tick sleeps one refresh interval and ends the run at st.rerun(),
\* before any tab is drawn; the clock is run no further than horizon.
Finish(cells, active, refresh, button, horizon, D) ==
    IF tick_due(active, refresh)
    THEN /\ now < horizon
         /\ now' = now + 1
         /\ \E draws \in [1..Len(cells) -> D] :
               LET ticked == simulate_all(cells, draws, now + 1)
               IN  /\ cells_data' = ticked
                   /\ historical_data' = store_history(historical_data, ticked, now + 1)
         /\ monitoring_active' = active
         /\ auto_refresh' = refresh
    ELSE /\ now' = now
         /\ cells_data' = IF button = "reset" THEN <<>> ELSE cells
         /\ historical_data' =
               IF button \in {"clear", "reset"} THEN <<>> ELSE historical_data
         /\ monitoring_active' = IF button = "reset" THEN FALSE ELSE active
         /\ auto_refresh' = refresh

\* A run no widget changed: the rerun a tick or a reset asks for, or one
\* an inert widget causes.
Rerun(horizon, D, T) ==
    /\ \E cells \in setup_cells(cells_data, num_cells, T, now) :
          Finish(cells, monitoring_active, auto_refresh, "none", horizon, D)
    /\ UNCHANGED <<widgets, call>>

\* Line 170: the number of cells changed.
ChangeNumCells(n, horizon, D, T) ==
    /\ n # num_cells
    /\ num_cells' = n
    /\ \E cells \in setup_cells(cells_data, n, T, now) :
          Finish(cells, monitoring_active, auto_refresh, "none", horizon, D)
    /\ UNCHANGED <<voltage_noise, temp_noise, current_noise, call>>

\* Lines 195-197: the run ends at st.rerun().
PressStart(T) ==
    /\ cells_data' \in setup_cells(cells_data, num_cells, T, now)
    /\ monitoring_active' = TRUE
    /\ UNCHANGED <<historical_data, auto_refresh, widgets, now, call>>

\* Lines 199-200.
PressStop(horizon, D, T) ==
    /\ \E cells \in setup_cells(cells_data, num_cells, T, now) :
          Finish(cells, FALSE, auto_refresh, "none", horizon, D)
    /\ UNCHANGED <<widgets, call>>

\* Lines 202-203: the checkbox set to b.
SetAutoRefresh(b, horizon, D, T) ==
    /\ b # auto_refresh
    /\ \E cells \in setup_cells(cells_data, num_cells, T, now) :
          Finish(cells, monitoring_active, b, "none", horizon, D)
    /\ UNCHANGED <<widgets, call>>

\* Lines 209-242: "Update Cell Data" pressed for cell i.
PressUpdate(i, input, horizon, D, T) ==
    /\ \E cells \in setup_cells(cells_data, num_cells, T, now) :
          /\ i \in 1..Len(cells)
          /\ Finish(update_selected(cells, i, input, now),
                    monitoring_active, auto_refresh, "none", horizon, D)
    /\ UNCHANGED <<widgets, call>>

\* Lines 480-482: a slider moved. The sliders' values are read nowhere.
MoveSlider(v, t, c, horizon, D, T) ==
    /\ <<v, t, c>> # <<voltage_noise, temp_noise, current_noise>>
    /\ voltage_noise' = v
    /\ temp_noise' = t
    /\ current_noise' = c
    /\ \E cells \in setup_cells(cells_data, num_cells, T, now) :
          Finish(cells, monitoring_active, auto_refresh, "none", horizon, D)
    /\ UNCHANGED <<num_cells, call>>

\* Lines 513-515.
PressClear(horizon, D, T) ==
    /\ \E cells \in setup_cells(cells_data, num_cells, T, now) :
          Finish(cells, monitoring_active, auto_refresh, "clear", horizon, D)
    /\ UNCHANGED <<widgets, call>>

\* Lines 517-522.
PressReset(horizon, D, T) ==
    /\ \E cells \in setup_cells(cells_data, num_cells, T, now) :
          Finish(cells, monitoring_active, auto_refresh, "reset", horizon, D)
    /\ UNCHANGED <<widgets, call>>

Init ==
    /\ SessionInit
    /\ WidgetsInit
    /\ num_cells \in CellCounts
    /\ now = 0
    /\ CallInit
    /\ arg_type = <<"lfp">>
    /\ arg_data = NoData

Next ==
    \/ Rerun(MaxTime, Draws, RunTypes)
    \/ \E n \in CellCounts : ChangeNumCells(n, MaxTime, Draws, RunTypes)
    \/ PressStart(RunTypes)
    \/ PressStop(MaxTime, Draws, RunTypes)
    \/ \E b \in BOOLEAN : SetAutoRefresh(b, MaxTime, Draws, RunTypes)
    \/ \E i \in 1..num_cells, input \in ManualInputs :
          PressUpdate(i, input, MaxTime, Draws, RunTypes)
    \/ \E p \in SliderPositions : MoveSlider(p[1], p[2], p[3], MaxTime, Draws, RunTypes)
    \/ PressClear(MaxTime, Draws, RunTypes)
    \/ PressReset(MaxTime, Draws, RunTypes)

Spec == Init /\ [][Next]_vars

\* The dashboard left to monitor: no manual update, no reset, every draw 0.
HistoryNext ==
    \/ Rerun(MaxHistoryTime, QuietDraws, RunTypes)
    \/ PressStart(RunTypes)
    \/ PressStop(MaxHistoryTime, QuietDraws, RunTypes)
    \/ \E b \in BOOLEAN : SetAutoRefresh(b, MaxHistoryTime, QuietDraws, RunTypes)

SpecHistory == Init /\ [][HistoryNext]_vars

----------------------------------------------------------------------------
(* Claims about the dashboard, under Spec and SpecHistory *)

\* C4: in every state each cell's capacity is round(voltage * abs(current), 2)
\* of the voltage and the current that cell's reading holds.
C4_CapacityFromStored ==
    \A i \in 1..Len(cells_data) :
        cells_data[i].data.capacity =
            round_product(cells_data[i].data.voltage, abs(cells_data[i].data.current))

\* C5: the history never holds more than 100 entries per monitored cell.
C5_HistoryWithinCap == Len(historical_data) <= 100 * Len(cells_data)

\* Whether a stored value moved by no more than level, half a unit of its
\* last stored decimal allowed for the rounding.
MovedWithin(before, after, level) == abs(after - before) <= level + 5

\* A run whose tick perturbs the cells as the last run left them.
TickOfPriorCells ==
    /\ now' = now + 1
    /\ \E draws \in [1..Len(cells_data) -> Draws] :
          cells_data' = simulate_all(cells_data, draws, now + 1)

\* C10: a tick perturbs each cell's voltage, temperature and current by no
\* more than the noise levels the sliders hold; at level 0 the value stays.
C10_SlidersBoundTick ==
    [][TickOfPriorCells =>
          \A i \in 1..Len(cells_data) :
              /\ MovedWithin(cells_data[i].data.voltage, cells_data'[i].data.voltage, voltage_noise)
              /\ MovedWithin(cells_data[i].data.temp, cells_data'[i].data.temp, temp_noise)
              /\ MovedWithin(cells_data[i].data.current, cells_data'[i].data.current, current_noise)]_vars

----------------------------------------------------------------------------
(* Claims about the functions, under SpecCalls *)

Rank(status) == IF status = "Critical" THEN 2 ELSE IF status = "Warning" THEN 1 ELSE 0

VoltageSeverity(d, L) ==
    IF d.voltage < L.min_voltage \/ d.voltage > L.max_voltage THEN 2 ELSE 0

CurrentSeverity(d, L) == IF abs(d.current) > L.max_current THEN 1 ELSE 0

TempSeverity(d) ==
    IF d.temp > 4500 THEN 2
    ELSE IF (d.temp > 4000 /\ d.temp <= 4500) \/ d.temp < 0 THEN 1 ELSE 0

\* C1: the status check_cell_status returns is the maximum severity of the
\* three dimension checks (voltage outside [min, max]: Critical; abs(current)
\* above max_current: Warning; temperature above 45: Critical, in (40, 45] or
\* below 0: Warning), so a Warning never lowers an earlier Critical.
C1_StatusIsMaxSeverity ==
    pc = "check_cell_status" =>
        LET L == get_cell_specs(arg_type)
        IN  Rank(ret_status) =
                max(VoltageSeverity(arg_data, L),
                    max(CurrentSeverity(arg_data, L), TempSeverity(arg_data)))

C1_Witness ==
    /\ pc = "check_cell_status"
    /\ arg_data.voltage < get_cell_specs(arg_type).min_voltage
    /\ abs(arg_data.current) > get_cell_specs(arg_type).max_current
    /\ arg_data.temp > 4000 /\ arg_data.temp <= 4500
    /\ ret_status = "Critical"

AlertDimension(a) ==
    IF a \in {"voltage_low", "voltage_high"} THEN 1
    ELSE IF a = "current_high" THEN 2 ELSE 3

\* C2: the alerts hold at most one voltage alert, one current alert and one
\* temperature alert, in that order, and the status is Good exactly when
\* there is no alert.
C2_AlertsOnePerDimensionInOrder ==
    pc = "check_cell_status" =>
        /\ \A i, j \in 1..Len(ret_alerts) :
              i < j => AlertDimension(ret_alerts[i]) < AlertDimension(ret_alerts[j])
        /\ (ret_status = "Good") <=> (ret_alerts = <<>>)

C2_Witness ==
    /\ pc = "check_cell_status"
    /\ ret_alerts = <<"voltage_high", "current_high", "temp_high">>
    /\ ret_status = "Critical"

\* C3: whatever the prior reading and the draws, the reading
\* simulate_real_time_data returns holds a voltage within [min_voltage,
\* max_voltage] of the cell's chemistry and a temperature within [0, 50].
C3_SimulatedWithinClamp ==
    pc = "simulate_real_time_data" =>
        LET L == get_cell_specs(key_type(cell_key(1, arg_type)))
        IN  /\ L.min_voltage <= ret_data.voltage
            /\ ret_data.voltage <= L.max_voltage
            /\ 0 <= ret_data.temp
            /\ ret_data.temp <= 5000

C3_Witness ==
    /\ pc = "simulate_real_time_data"
    /\ arg_type = <<"lto">>
    /\ arg_data.voltage = 0
    /\ arg_data.temp = 8000
    /\ ret_data.voltage = 15000
    /\ ret_data.temp = 5000

\* C6: each of the four chemistries' specs has min_voltage < nominal_voltage
\* < max_voltage and max_current >= 0.
C6_SpecsOrdered ==
    (pc = "get_cell_specs" /\ arg_type \in KnownTypes) =>
        /\ ret_specs.min_voltage < ret_specs.nominal_voltage
        /\ ret_specs.nominal_voltage < ret_specs.max_voltage
        /\ ret_specs.max_current >= 0

C6_Witness ==
    /\ pc = "get_cell_specs"
    /\ arg_type = <<"lto">>
    /\ ret_specs.nominal_voltage = 24000
    /\ ret_specs.max_current = 200000

\* Whether the classification returned is the one the lfp limits give.
ClassifiedWithLfpLimits ==
    /\ ("voltage_low" \in {ret_alerts[i] : i \in 1..Len(ret_alerts)})
          <=> (arg_data.voltage < 28000)
    /\ ("voltage_high" \in {ret_alerts[i] : i \in 1..Len(ret_alerts)})
          <=> (arg_data.voltage > 36000)
    /\ ("current_high" \in {ret_alerts[i] : i \in 1..Len(ret_alerts)})
          <=> (abs(arg_data.current) > 100000)

ClampedWithLfpLimits == 28000 <= ret_data.voltage /\ ret_data.voltage <= 36000

\* C7 as stated: for any identifier that is not one of the four,
\* get_cell_specs returns the lfp spec, so the classification and the
\* simulation clamp of a cell with that identifier use the lfp limits.
C7_UnknownIdentifierIsLfp ==
    arg_type \notin KnownTypes =>
        /\ pc = "get_cell_specs" => ret_specs = specs_lfp
        /\ pc \in {"check_cell_status", "cell_status"} => ClassifiedWithLfpLimits
        /\ pc = "simulate_real_time_data" => ClampedWithLfpLimits

\* C7 amended: get_cell_specs returns the lfp spec for any identifier that is
\* not one of the four, and check_cell_status called with it uses the lfp
\* limits; the status of a cell and the simulation clamp take the chemistry
\* from the cell key's third '_'-separated field, and use the lfp limits
\* whenever that field (the identifier up to its first '_') is not nmc, lto
\* or lifepo4.
C7_UnknownFieldIsLfp ==
    arg_type \notin KnownTypes =>
        /\ pc = "get_cell_specs" => ret_specs = specs_lfp
        /\ pc = "check_cell_status" => ClassifiedWithLfpLimits
        /\ <<Head(arg_type)>> \notin KnownTypes \ {<<"lfp">>} =>
              /\ pc = "cell_status" => ClassifiedWithLfpLimits
              /\ pc = "simulate_real_time_data" => ClampedWithLfpLimits

C7_Witness ==
    /\ pc = "simulate_real_time_data"
    /\ arg_type = <<"li", "ion">>
    /\ arg_data.voltage = 50000
    /\ ret_data.voltage = 36000

\* C8: every cell reading created at cell setup, by the dashboard or by the
\* script, holds its chemistry's nominal voltage, current 0, capacity 0 and a
\* temperature within [25, 35], and so classifies as Good with no alerts.
C8_FreshCellNominalAndGood ==
    pc \in {"new_cell", "w1_setup"} =>
        /\ ret_data.voltage = get_cell_specs(arg_type).nominal_voltage
        /\ ret_data.current = 0
        /\ ret_data.capacity = 0
        /\ 2500 <= ret_data.temp /\ ret_data.temp <= 3500
        /\ check_cell_status(ret_data, arg_type) = status_start

\* C9: the record the script ends with for an entered type and current is
\* the record the dashboard gives a cell of that type created and then
\* manually updated to that current.
C9_ScriptEqualsDashboard ==
    pc = "w1" =>
        LET fresh == new_cell(arg_type, ret_data.temp, 0)
            d == update_cell_data(fresh, fresh.voltage, arg_data.current, fresh.temp, 0)
        IN  /\ ret_data.voltage = d.voltage
            /\ ret_data.min_voltage = d.min_voltage
            /\ ret_data.max_voltage = d.max_voltage
            /\ ret_data.capacity = d.capacity
            /\ 2500 <= ret_data.temp /\ ret_data.temp <= 3500

AlertSet == {ret_alerts[i] : i \in 1..Len(ret_alerts)}

\* C11: every threshold is strict: a voltage equal to min_voltage or
\* max_voltage gives no voltage alert, abs(current) equal to max_current no
\* current alert, a temperature of exactly 40 or 0 no temperature alert, and
\* a temperature of exactly 45 the "temperature elevated" alert, which makes
\* the status at least Warning and Critical only with a voltage alert.
C11_ThresholdsStrict ==
    pc = "check_cell_status" =>
        LET L == get_cell_specs(arg_type)
        IN  /\ arg_data.voltage \in {L.min_voltage, L.max_voltage} =>
                  AlertSet \cap {"voltage_low", "voltage_high"} = {}
            /\ abs(arg_data.current) = L.max_current => "current_high" \notin AlertSet
            /\ arg_data.temp \in {0, 4000} =>
                  AlertSet \cap {"temp_high", "temp_elevated", "temp_low"} = {}
            /\ arg_data.temp = 4500 =>
                  /\ AlertSet \cap {"temp_high", "temp_elevated", "temp_low"} = {"temp_elevated"}
                  /\ Rank(ret_status) >= 1
                  /\ ret_status = "Critical" =>
                        AlertSet \cap {"voltage_low", "voltage_high"} # {}

C11_Witness ==
    /\ pc = "check_cell_status"
    /\ arg_type = <<"lifepo4">>
    /\ arg_data.voltage = 36500
    /\ arg_data.current = 150000
    /\ arg_data.temp = 4500
    /\ ret_alerts = <<"temp_elevated">>
    /\ ret_status = "Warning"

\* What a run without a tick can leave in cells_data: the cells as they
\* were or set up anew, one of them manually updated, or none after a reset.
CellsWithoutTick ==
    LET setups == setup_cells(cells_data, num_cells', RunTypes, now)
    IN  setups \cup {<<>>}
        \cup {update_selected(cells, i, input, now) :
                 cells \in setups, i \in 1..num_cells', input \in ManualInputs}

\* C12: a tick (every cell perturbed, one history entry appended per cell,
\* the clock advanced) happens only with monitoring_active and auto_refresh
\* both true at line 245; a run that leaves either false perturbs no reading
\* and appends no history entry: it changes the cells only by a manual
\* update, a new setup or a reset, and the history only by clearing it.
C12_TickOnlyWhenActiveAndRefreshing ==
    [][~(monitoring_active' /\ auto_refresh') =>
          /\ now' = now
          /\ historical_data' \in {historical_data, <<>>}
          /\ \/ cells_data' = cells_data
             \/ cells_data' \in CellsWithoutTick]_vars

C12_Witness ==
    /\ now = 1
    /\ ~monitoring_active
    /\ auto_refresh
    /\ Len(historical_data) = Len(cells_data)
    /\ cells_data # <<>>
    /\ \A i \in 1..Len(cells_data) :
          /\ cells_data[i].data.timestamp = 1
          /\ historical_data[i].voltage = cells_data[i].data.voltage

\* C13: the status of a reading that a simulation step produced, classified
\* with the chemistry parsed from the same cell key, has no alert for a
\* voltage too low, a voltage too high or a temperature too low; it differs
\* from Good only with the current above max_current or the temperature
\* above 40.
C13_SimulatedNeverOutOfClamp ==
    pc = "status_of_simulated" =>
        LET L == get_cell_specs(key_type(cell_key(1, arg_type)))
        IN  /\ AlertSet \cap {"voltage_low", "voltage_high", "temp_low"} = {}
            /\ ret_status # "Good" =>
                  \/ abs(ret_data.current) > L.max_current
                  \/ ret_data.temp > 4000

C13_Witness ==
    /\ pc = "status_of_simulated"
    /\ arg_type = <<"nmc", "x">>
    /\ arg_data.voltage < get_cell_specs(<<"nmc">>).min_voltage
    /\ arg_data.temp < 0
    /\ ret_data.voltage = get_cell_specs(<<"nmc">>).min_voltage
    /\ ret_data.temp = 0
    /\ ret_status = "Warning"
    /\ ret_alerts = <<"current_high">>

====
